---- MODULE Spec2Model ----
(***************************************************************************)
(* PDF/X print pipeline: processBatch (scripts/batch-process.ts), the TAC   *)
(* limiter limitTAC (limit-tac.ts, reproduced in RENDERING-ISSUES.md) and   *)
(* the TAC validator validateTAC (validate-tac.ts).                         *)
(*                                                                         *)
(* A document is a record [exists, inkOk, pages]; pages is a sequence of    *)
(* [src, tac, kind]: src is the page of the rendered source the content     *)
(* comes from, tac the page's total area coverage in percent, kind one of   *)
(* "vector" (text and vectors intact), "raster" (rasterized, colours        *)
(* untouched) and "remapped" (rasterized and passed through the device-link *)
(* profile).  inkOk says whether the ink-coverage tool can read the file.   *)
(***************************************************************************)
EXTENDS Integers, Sequences, FiniteSets, TLC

VARIABLES
    pc,            \* position of processBatch ("cli": no batch, limit-tac CLI process)
    opts,          \* BatchOptions
    rgb,           \* <backend>-output.pdf exists
    pdfx,          \* <backend>-pdfx.pdf
    tac240,        \* <backend>-pdfx-tac240.pdf
    result,        \* the result object of processBatch
    lt,            \* the running limitTAC call
    iccFiles,      \* cmyk-tac<N>.icc files on disk, as <<tempDir, ceiling>>
    profileBuilds, \* linkicc runs of this process, per ceiling
    invocations,   \* limitTAC calls of this process; Date.now() differs from call to call
    hist,          \* history of the run: stage outcomes and remediation calls
    cmp,           \* runComparisonInDir: the files it reads and the report it builds
    vis,           \* the running compareVisually call
    tv,            \* the validate-tac process: its file, validateTAC's result, the exit code
    pl             \* runPipeline: the discovered projects and the results collected

vars == <<pc, opts, rgb, pdfx, tac240, result, lt, iccFiles, profileBuilds,
          invocations, hist, cmp, vis, tv, pl>>

----------------------------------------------------------------------------
(* Bounds and program constants *)

MaxPages == 2

MaxInvocations == 2

MaxVisualPages == 3

MaxProjects == 4

TacPass == 200

TacFail == 240

BatchMaxTAC == 240

DefaultMaxTAC == 240

AfterTolerance == 1

PadWidth == 4

Backends == {"pagedjs", "vivliostyle", "weasyprint"}

TacLevels == {150, 240, 260}

Ceilings == {200, DefaultMaxTAC}

Tools == {"ghostscript", "liblcms2-utils (tificc)", "liblcms2-utils (linkicc)",
          "img2pdf (pip install img2pdf)", "poppler-utils (pdfunite)"}

PageOutcomes == {"ok", "remapFail", "remapCpFail", "rasterFail", "wrapFail"}

----------------------------------------------------------------------------
(* Documents *)

NoDoc == [exists |-> FALSE, inkOk |-> FALSE, pages |-> <<>>]

MkDoc(tacs, readable) ==
    [exists |-> TRUE, inkOk |-> readable,
     pages |-> [i \in 1..Len(tacs) |-> [src |-> i, tac |-> tacs[i], kind |-> "vector"]]]

RECURSIVE SeqsUpTo(_, _)
SeqsUpTo(S, n) ==
    IF n = 0 THEN {<<>>}
    ELSE LET shorter == SeqsUpTo(S, n - 1)
         IN  shorter \cup {Append(s, x) : s \in {t \in shorter : Len(t) = n - 1}, x \in S}

Max(S) == CHOOSE x \in S : \A y \in S : y <= x

PageTacs(doc) == {doc.pages[i].tac : i \in 1..Len(doc.pages)}

----------------------------------------------------------------------------
(* TAC measurement *)

\* a classification with the limits themselves in the higher band
GetTACStatusAtOrAbove(tac) ==
    IF tac >= TacFail THEN "fail" ELSE IF tac >= TacPass THEN "warn" ELSE "pass"

GetTACStatus(tac) ==
    IF tac > TacFail THEN "fail" ELSE IF tac > TacPass THEN "warn" ELSE "pass"

\* check_ink.ts of the ttrpg-publishing profile: per-page TAC, the maximum and
\* the pages above the limit; it throws when the file cannot be analysed.
CheckInkCoverage(doc) ==
    [ok |-> doc.exists /\ doc.inkOk,
     perPage |-> [i \in 1..Len(doc.pages) |-> doc.pages[i].tac],
     maxTAC |-> IF doc.pages = <<>> THEN 0 ELSE Max(PageTacs(doc)),
     pagesOverLimit |-> {i \in 1..Len(doc.pages) : doc.pages[i].tac > TacFail}]

NoTAC ==
    [present |-> FALSE, passed |-> FALSE, maxTAC |-> 0,
     pagesOverLimit |-> {}, pagesWithWarnings |-> {}, perPage |-> <<>>]

\* the TAC of a page: the sum of its four channel percentages
InkTac(cmyk) == cmyk[1] + cmyk[2] + cmyk[3] + cmyk[4]

ValidateTACThrows(doc) == ~doc.exists \/ ~CheckInkCoverage(doc).ok

\* a validateTAC that passes only documents without warnings
ValidateTACStrict(doc) ==
    LET ink == CheckInkCoverage(doc)
        perPage == [i \in 1..Len(ink.perPage) |->
                      [tac |-> ink.perPage[i], status |-> GetTACStatus(ink.perPage[i])]]
    IN  [present |-> TRUE,
         passed |-> \A i \in 1..Len(perPage) : perPage[i].status = "pass",
         maxTAC |-> ink.maxTAC,
         pagesOverLimit |-> ink.pagesOverLimit,
         pagesWithWarnings |-> {i \in 1..Len(perPage) : perPage[i].status = "warn"},
         perPage |-> perPage]

ValidateTAC(doc) ==
    LET ink == CheckInkCoverage(doc)
        perPage == [i \in 1..Len(ink.perPage) |->
                      [tac |-> ink.perPage[i], status |-> GetTACStatus(ink.perPage[i])]]
    IN  [present |-> TRUE,
         passed |-> ink.pagesOverLimit = {},
         maxTAC |-> ink.maxTAC,
         pagesOverLimit |-> ink.pagesOverLimit,
         pagesWithWarnings |-> {i \in 1..Len(perPage) : perPage[i].status = "warn"},
         perPage |-> perPage]

\* measureTAC of limit-tac.ts: 0 when Ghostscript fails or prints no page line.
MeasureTAC(doc) ==
    IF ~doc.exists \/ ~doc.inkOk \/ doc.pages = <<>> THEN 0 ELSE Max(PageTacs(doc))

----------------------------------------------------------------------------
(* limitTAC: page files and their order *)

RECURSIVE Digits(_)
Digits(n) == IF n < 10 THEN <<n>> ELSE Digits(n \div 10) \o <<n % 10>>

PadStart(s, w) == IF Len(s) >= w THEN s ELSE [i \in 1..(w - Len(s)) |-> 0] \o s

\* `page-${pageStr}.pdf` as UTF-16 code units, without the shared prefix "page-"
PageFileName(page) ==
    LET d == PadStart(Digits(page), PadWidth)
    IN  [i \in 1..Len(d) |-> 48 + d[i]] \o <<46, 112, 100, 102>>

\* Array.prototype.sort() without comparator: code-unit order of the names
NameLess(a, b) ==
    \/ \E i \in 1..Len(a) :
          /\ i <= Len(b)
          /\ a[i] < b[i]
          /\ \A j \in 1..(i - 1) : a[j] = b[j]
    \/ /\ Len(a) < Len(b)
       /\ \A j \in 1..Len(a) : a[j] = b[j]

RECURSIVE SetToSeq(_)
SetToSeq(S) ==
    IF S = {} THEN <<>>
    ELSE LET x == CHOOSE y \in S : TRUE IN <<x>> \o SetToSeq(S \ {x})

SortedPdfFiles(frags) ==
    SortSeq(SetToSeq(frags), LAMBDA a, b : NameLess(a.name, b.name))

\* tificc -l <device link>: the remapped raster's coverage is bounded by the ceiling
Remap(tac, ceiling) == IF tac > ceiling THEN ceiling ELSE tac

\* What one pass of the page loop can meet: "ok" (gs, tificc, img2pdf succeed),
\* "remapFail" (tificc fails, cp succeeds), "remapCpFail" (tificc and cp fail),
\* "rasterFail" (gs fails), "wrapFail" (img2pdf fails).
\* The page file left in pdf/ by one pass of the page loop, if any.
PageFragmentNoFallback(o, page, pg, ceiling) ==
    IF o = "ok"
    THEN {[name |-> PageFileName(page),
           content |-> [src |-> page, tac |-> Remap(pg.tac, ceiling), kind |-> "remapped"]]}
    ELSE {}

PageFragment(o, page, pg, ceiling) ==
    CASE o = "ok" ->
           {[name |-> PageFileName(page),
             content |-> [src |-> page, tac |-> Remap(pg.tac, ceiling), kind |-> "remapped"]]}
      [] o = "remapFail" ->
           {[name |-> PageFileName(page),
             content |-> [src |-> page, tac |-> pg.tac, kind |-> "raster"]]}
      [] OTHER -> {}

MergedDoc(frags) ==
    LET files == SortedPdfFiles(frags)
    IN  [exists |-> TRUE, inkOk |-> TRUE,
         pages |-> [i \in 1..Len(files) |-> files[i].content]]

NoError == [kind |-> "none", missing |-> {}]

\* checkDependencies: every missing tool is collected before returning
FirstMissingOnly(missing) ==
    IF missing = {} THEN {} ELSE {CHOOSE t \in missing : TRUE}

CheckDependencies(missing) == missing

----------------------------------------------------------------------------
(* limitTAC *)

IdleLt ==
    [pc |-> "idle", caller |-> "none", input |-> NoDoc, ceiling |-> 0,
     verify |-> FALSE, keepTemp |-> FALSE, envMissing |-> {}, tempDir |-> -1,
     builtProfile |-> FALSE, pageCount |-> 0, page |-> 0, outcomes |-> <<>>,
     frags |-> {}, outWritten |-> FALSE, outDoc |-> NoDoc, beforeTAC |-> -1,
     afterTAC |-> -1, warned |-> FALSE, success |-> FALSE, error |-> NoError]

\* limitTAC(options): the call as it stands on entry
LimitTACCall(caller, input, ceiling, verify, keepTemp) ==
    [IdleLt EXCEPT !.pc = "start", !.caller = caller, !.input = input,
                   !.ceiling = ceiling, !.verify = verify, !.keepTemp = keepTemp]

\* return { success: false, ..., error }
LtFail(l, kind, missing) ==
    [l EXCEPT !.pc = "return", !.success = FALSE,
              !.error = [kind |-> kind, missing |-> missing]]

\* the icc files left once the temp directory of call l has been cleaned up
IccAfterCleanup(l, files) ==
    IF l.keepTemp THEN files ELSE {f \in files : f[1] # l.tempDir}

\* input check, checkDependencies, measureTAC before, temp directory
LtStart ==
    /\ lt.pc = "start"
    /\ \E missing \in SUBSET Tools :
          LET deps == CheckDependencies(missing)
              here == [lt EXCEPT !.envMissing = missing]
          IN  IF ~lt.input.exists
              THEN lt' = LtFail(here, "input-not-found", {})
              ELSE IF deps # {}
              THEN lt' = LtFail(here, "missing-deps", deps)
              ELSE lt' = [here EXCEPT !.pc = "profile",
                                      !.beforeTAC = IF lt.verify THEN MeasureTAC(lt.input)
                                                    ELSE -1,
                                      !.tempDir = invocations]
    /\ UNCHANGED <<pc, opts, rgb, pdfx, tac240, result, iccFiles, profileBuilds,
                   invocations, hist>>
    /\ UNCHANGED <<cmp, vis, tv, pl>>

\* createTACProfile(maxTAC, tempDir): the profile path lies in the call's temp directory
ProfilePath(l) == <<l.tempDir, l.ceiling>>

\* createTACProfile, then getPageCount.  The first branch is the existsSync
\* shortcut of createTACProfile; the temp directory being new, no file is there.
LtProfile ==
    /\ lt.pc = "profile"
    /\ \/ /\ ProfilePath(lt) \in iccFiles
          /\ \E countOk \in BOOLEAN :
                lt' = [lt EXCEPT !.pc = "pages", !.page = 1,
                                 !.pageCount = IF countOk THEN Len(lt.input.pages) ELSE 0]
          /\ UNCHANGED <<iccFiles, profileBuilds>>
       \/ /\ ProfilePath(lt) \notin iccFiles
          /\ \E countOk \in BOOLEAN :
                lt' = [lt EXCEPT !.pc = "pages", !.page = 1, !.builtProfile = TRUE,
                                 !.pageCount = IF countOk THEN Len(lt.input.pages) ELSE 0]
          /\ iccFiles' = iccFiles \cup {ProfilePath(lt)}
          /\ profileBuilds' = [profileBuilds EXCEPT ![lt.ceiling] = @ + 1]
       \/ /\ ProfilePath(lt) \notin iccFiles
          /\ lt' = LtFail(lt, "profile", {})
          /\ iccFiles' = IccAfterCleanup(lt, iccFiles)
          /\ UNCHANGED profileBuilds
    /\ UNCHANGED <<pc, opts, rgb, pdfx, tac240, result, invocations, hist>>
    /\ UNCHANGED <<cmp, vis, tv, pl>>

\* one pass of the page loop: gs (tiff32nc), tificc or cp, img2pdf
LtPage ==
    /\ lt.pc = "pages"
    /\ lt.page <= lt.pageCount
    /\ \E o \in PageOutcomes :
          LET frag == PageFragment(o, lt.page, lt.input.pages[lt.page], lt.ceiling)
          IN  lt' = [lt EXCEPT !.page = @ + 1,
                               !.outcomes = Append(@, o),
                               !.frags = @ \cup frag]
    /\ UNCHANGED <<pc, opts, rgb, pdfx, tac240, result, iccFiles, profileBuilds,
                   invocations, hist>>
    /\ UNCHANGED <<cmp, vis, tv, pl>>

\* a merge step in which a TAC still above the tolerance is an error
LtMergeFailOnExcess ==
    /\ lt.pc = "pages"
    /\ lt.page > lt.pageCount
    /\ \/ /\ lt.frags = {}
          /\ lt' = LtFail(lt, "no-pages", {})
       \/ /\ lt.frags # {}
          /\ lt' = LtFail(lt, "merge", {})
       \/ /\ lt.frags # {}
          /\ \E cleanupOk \in (IF lt.keepTemp THEN {TRUE} ELSE BOOLEAN) :
                LET out   == MergedDoc(lt.frags)
                    after == IF lt.verify THEN MeasureTAC(out) ELSE -1
                    done  == [lt EXCEPT !.outWritten = TRUE, !.outDoc = out,
                                        !.afterTAC = after,
                                        !.warned = lt.verify /\ after > lt.ceiling + AfterTolerance]
                IN  lt' = IF done.warned THEN LtFail(done, "verify", {})
                          ELSE IF cleanupOk
                          THEN [done EXCEPT !.pc = "return", !.success = TRUE]
                          ELSE LtFail(done, "cleanup", {})
    /\ iccFiles' = IccAfterCleanup(lt, iccFiles)
    /\ UNCHANGED <<pc, opts, rgb, pdfx, tac240, result, profileBuilds, invocations, hist>>
    /\ UNCHANGED <<cmp, vis, tv, pl>>

\* readdir + sort + pdfunite, measureTAC after, cleanup, return
LtMerge ==
    /\ lt.pc = "pages"
    /\ lt.page > lt.pageCount
    /\ \/ /\ lt.frags = {}
          /\ lt' = LtFail(lt, "no-pages", {})
       \/ /\ lt.frags # {}
          /\ lt' = LtFail(lt, "merge", {})
       \/ /\ lt.frags # {}
          /\ \E cleanupOk \in (IF lt.keepTemp THEN {TRUE} ELSE BOOLEAN) :
                LET out   == MergedDoc(lt.frags)
                    after == IF lt.verify THEN MeasureTAC(out) ELSE -1
                    done  == [lt EXCEPT !.outWritten = TRUE, !.outDoc = out,
                                        !.afterTAC = after,
                                        !.warned = lt.verify /\ after > lt.ceiling + AfterTolerance]
                IN  lt' = IF cleanupOk
                          THEN [done EXCEPT !.pc = "return", !.success = TRUE]
                          ELSE LtFail(done, "cleanup", {})
    /\ iccFiles' = IccAfterCleanup(lt, iccFiles)
    /\ UNCHANGED <<pc, opts, rgb, pdfx, tac240, result, profileBuilds, invocations, hist>>
    /\ UNCHANGED <<cmp, vis, tv, pl>>

----------------------------------------------------------------------------
(* processBatch: control flow *)

BackendOrder == <<"pagedjs", "vivliostyle", "weasyprint">>

StageOrder == <<"build", "convert", "limit", "validate">>

Index(seq, x) == CHOOSE i \in 1..Len(seq) : seq[i] = x

At(stage, b) == [stage |-> stage, b |-> b]

\* the documents a conversion to PDF/X can produce: one page below, at or above
\* the limit, and one the ink-coverage tool cannot read (documents of several
\* pages go through limitTAC under SpecLimit)
DocSet ==
    {MkDoc(<<150>>, TRUE), MkDoc(<<240>>, TRUE), MkDoc(<<260>>, TRUE),
     MkDoc(<<260>>, FALSE)}

\* the statement that follows step p of processBatch
AfterStep(p, o) ==
    LET bi == Index(BackendOrder, p.b)
        si == Index(StageOrder, p.stage)
    IN  IF bi < Len(BackendOrder) THEN At(p.stage, BackendOrder[bi + 1])
        ELSE IF p.stage = "build" /\ o.skipConvert THEN At("compare", "-")
        ELSE IF si < Len(StageOrder) THEN At(StageOrder[si + 1], BackendOrder[1])
        ELSE At("compare", "-")

\* every stage sits in its own try/catch: the catch logs and falls through
AbortOnException(p, o) == At("done", "-")

AfterException(p, o) == AfterStep(p, o)

SetStage(h, stage, b, o) ==
    [h EXCEPT !.stage[<<stage, b>>] = o,
              !.failed = IF o \in {"fail", "throw"} THEN @ \cup {<<stage, b>>} ELSE @]

NoLim ==
    [reached |-> FALSE, called |-> FALSE, measured |-> FALSE, docBefore |-> NoDoc,
     returned |-> FALSE, success |-> FALSE]

(* runComparisonInDir: validatePdf, compareFeatures, calculateSummary.         *)
(* A PDF/X file is here what pdfinfo, pdffonts and the inkcov device report:   *)
(* [exists, dimsOk, cmyk, fontsOk, versionOk, encrypted, hasPages, inkOk, tac, *)
(* fileSize]; tac is the highest page TAC, inkOk whether inkcov can read it.   *)

DtrpgMaxTAC == 240

FeatureMaxTAC == 240

TacTolerance == 5

SizeBetterPct == 90

SizeSamePct == 10

ValidPoints == 5

ScoreCap == 10

NoFile ==
    [exists |-> FALSE, dimsOk |-> FALSE, cmyk |-> FALSE, fontsOk |-> FALSE,
     versionOk |-> FALSE, encrypted |-> FALSE, hasPages |-> FALSE,
     inkOk |-> FALSE, tac |-> 0, fileSize |-> 0]

\* getInkCoverage of validate-pdfs.ts and the maximum taken over it: a failing
\* Ghostscript is caught and leaves the list empty
InkCoverageMax(f) == IF f.inkOk THEN f.tac ELSE 0

\* the checks of validatePdf, in the order they are pushed
CheckPassed(f) ==
    [n \in {"Page Dimensions", "Color Space", "Max Ink Coverage (TAC)",
            "Fonts Embedded", "PDF Version", "Encryption", "Page Count"} |->
        CASE n = "Page Dimensions" -> f.dimsOk
          [] n = "Color Space" -> f.cmyk
          [] n = "Max Ink Coverage (TAC)" -> InkCoverageMax(f) <= DtrpgMaxTAC
          [] n = "Fonts Embedded" -> f.fontsOk
          [] n = "PDF Version" -> f.versionOk
          [] n = "Encryption" -> ~f.encrypted
          [] n = "Page Count" -> f.hasPages]

\* the checks whose failure pushes to result.errors
ErrorChecks == {"Page Dimensions", "Color Space", "Fonts Embedded", "Encryption"}

\* a ValidationResult, or null (present = FALSE)
NoValidation ==
    [present |-> FALSE, valid |-> FALSE, passed |-> {}, maxTac |-> 0, fileSize |-> 0]

ValidatePdf(f) ==
    LET checks == CheckPassed(f)
    IN  [present |-> TRUE,
         valid |-> \A n \in ErrorChecks : checks[n],
         passed |-> {n \in DOMAIN checks : checks[n]},
         maxTac |-> InkCoverageMax(f),
         fileSize |-> f.fileSize]

Min(a, b) == IF a <= b THEN a ELSE b

Abs(x) == IF x < 0 THEN -x ELSE x

\* Math.round of halves / 2, halves >= 0: a half rounds up
RoundHalves(halves) == (halves + 1) \div 2

\* the score of one backend: 5 if valid, 0.5 per passed check, rounded, capped
Score(v) ==
    LET halves == (IF v.present /\ v.valid THEN 2 * ValidPoints ELSE 0)
                  + Cardinality(v.passed)
    IN  Min(ScoreCap, RoundHalves(halves))

\* a ranking that names the first backend with the highest score
SummaryFirstOfWinners(v) ==
    LET score   == [b \in Backends |-> Score(v[b])]
        maxSc   == Max({score[b] : b \in Backends})
    IN  [winner |-> IF \A b \in Backends : ~v[b].present THEN "inconclusive"
                    ELSE BackendOrder[CHOOSE i \in 1..Len(BackendOrder) :
                            /\ score[BackendOrder[i]] = maxSc
                            /\ \A j \in 1..(i - 1) : score[BackendOrder[j]] < maxSc],
         score |-> score,
         compliant |-> [b \in Backends |-> v[b].present /\ v[b].valid]]

CalculateSummary(v) ==
    LET score   == [b \in Backends |-> Score(v[b])]
        maxSc   == Max({score[b] : b \in Backends})
        winners == {b \in Backends : score[b] = maxSc}
    IN  [winner |-> IF \A b \in Backends : ~v[b].present THEN "inconclusive"
                    ELSE IF Cardinality(winners) > 1 THEN "tie"
                    ELSE CHOOSE b \in winners : TRUE,
         score |-> score,
         compliant |-> [b \in Backends |-> v[b].present /\ v[b].valid]]

\* the "Max Ink (TAC)" row of compareFeatures; t[b] is 0 for a backend without info
TacRow(t) ==
    LET pj == t["pagedjs"]
        vs == t["vivliostyle"]
        wp == t["weasyprint"]
        least == Min(pj, Min(vs, wp))
        ok(x) == x <= FeatureMaxTAC
    IN  IF ok(pj) /\ ok(vs) /\ ok(wp)
        THEN IF wp = least /\ wp < pj - TacTolerance /\ wp < vs - TacTolerance
             THEN "weasyprint-better"
             ELSE IF pj = least /\ pj < vs - TacTolerance /\ pj < wp - TacTolerance
             THEN "pagedjs-better"
             ELSE IF vs = least /\ vs < pj - TacTolerance /\ vs < wp - TacTolerance
             THEN "vivliostyle-better"
             ELSE IF Abs(pj - vs) < TacTolerance /\ Abs(pj - wp) < TacTolerance
             THEN "same"
             ELSE "different"
        ELSE IF ok(wp) /\ ~ok(pj) /\ ~ok(vs) THEN "weasyprint-better"
             ELSE IF ok(pj) /\ ~ok(vs) /\ ~ok(wp) THEN "pagedjs-better"
             ELSE IF ok(vs) /\ ~ok(pj) /\ ~ok(wp) THEN "vivliostyle-better"
             ELSE "different"

\* a < b * 0.9
MuchSmaller(a, b) == 100 * a < SizeBetterPct * b

\* Math.abs(a - b) / Math.max(a, b) < 0.1; 0 / 0 is NaN, which compares false
NearlyEqual(a, b) ==
    LET larger == IF a >= b THEN a ELSE b
    IN  larger > 0 /\ 100 * Abs(a - b) < SizeSamePct * larger

\* the "File Size" row of compareFeatures; z[b] is 0 for a backend without info
SizeRow(z) ==
    LET pj == z["pagedjs"]
        vs == z["vivliostyle"]
        wp == z["weasyprint"]
        least == Min(pj, Min(vs, wp))
    IN  IF wp = least /\ MuchSmaller(wp, pj) /\ MuchSmaller(wp, vs)
        THEN "weasyprint-better"
        ELSE IF pj = least /\ MuchSmaller(pj, vs) /\ MuchSmaller(pj, wp)
        THEN "pagedjs-better"
        ELSE IF vs = least /\ MuchSmaller(vs, pj) /\ MuchSmaller(vs, wp)
        THEN "vivliostyle-better"
        ELSE IF NearlyEqual(pj, vs) /\ NearlyEqual(pj, wp)
        THEN "same"
        ELSE "different"

NoSummary ==
    [winner |-> "-", score |-> [b \in Backends |-> 0],
     compliant |-> [b \in Backends |-> FALSE]]

CmpOf(files) ==
    [pc |-> "idle", files |-> files,
     validation |-> [b \in Backends |-> NoValidation],
     summary |-> NoSummary, tacDiff |-> "-", sizeDiff |-> "-"]

\* runPipeline with n projects in projectsToProcess (project k is the k-th of
\* the list); projects is the list of ProjectRunResult
PipelineCall(n) ==
    [pc |-> "loop", n |-> n, projects |-> <<>>, success |-> FALSE]

IdlePl == [PipelineCall(0) EXCEPT !.pc = "idle"]

\* validate-tac.ts <pdf-file>: cmyk are the channel percentages of its pages,
\* doc the file as the ink measurement sees it
TacCall(cmyk, readable) ==
    [pc |-> "start", cmyk |-> cmyk,
     doc |-> MkDoc([i \in 1..Len(cmyk) |-> InkTac(cmyk[i])], readable),
     result |-> NoTAC, exitCode |-> -1]

IdleTv == [TacCall(<<>>, FALSE) EXCEPT !.pc = "idle", !.doc = NoDoc]

\* compareVisually(pdf1, pdf2, outputDir): exists1/exists2 the two files, n1/n2
\* the page images pdftoppm writes for them, page the loop index i,
\* differenceImages the pages a diff image was recorded for
VisualCall(exists1, exists2, n1, n2) ==
    [pc |-> "start", exists1 |-> exists1, exists2 |-> exists2, n1 |-> n1, n2 |-> n2,
     page |-> 0, pagesCompared |-> 0, differencesFound |-> 0,
     differenceImages |-> {}, isNull |-> FALSE]

IdleVis == [VisualCall(FALSE, FALSE, 0, 0) EXCEPT !.pc = "idle"]

\* no comparison has run
IdleCmp == CmpOf([b \in Backends |-> NoFile])

InitResult ==
    [success |-> TRUE,
     build |-> [b \in Backends |-> FALSE],
     convert |-> [b \in Backends |-> FALSE],
     compliant |-> [b \in Backends |-> FALSE],
     tacValidation |-> [b \in Backends |-> NoTAC],
     errors |-> {}]

InitHist ==
    [stage |-> [k \in {"build", "convert", "validate"} \X Backends |-> "none"],
     failed |-> {},
     lim |-> [b \in Backends |-> NoLim],
     compareThrew |-> FALSE]

InitCommon ==
    /\ rgb = [b \in Backends |-> FALSE]
    /\ pdfx = [b \in Backends |-> NoDoc]
    /\ tac240 = [b \in Backends |-> NoDoc]
    /\ result = InitResult
    /\ lt = IdleLt
    /\ iccFiles = {}
    /\ profileBuilds = [c \in Ceilings |-> 0]
    /\ invocations = 0
    /\ hist = InitHist
    /\ cmp = IdleCmp
    /\ vis = IdleVis
    /\ tv = IdleTv
    /\ pl = IdlePl

Init ==
    /\ pc = At("start", "-")
    /\ opts \in [skip : [Backends -> BOOLEAN], skipConvert : BOOLEAN,
                 skipCompare : BOOLEAN, strictCompliance : BOOLEAN]
    /\ InitCommon

ltVars == <<lt, iccFiles, profileBuilds, invocations>>

\* locating the HTML file
Start ==
    /\ pc = At("start", "-")
    /\ \E html \in {"found", "none", "nodir"} :
          CASE html = "found" ->
                 /\ pc' = At("build", BackendOrder[1])
                 /\ UNCHANGED result
            [] html = "none" ->
                 /\ pc' = At("done", "-")
                 /\ result' = [result EXCEPT !.errors = @ \cup {<<"no-html", "-">>},
                                             !.success = FALSE]
            [] html = "nodir" ->
                 /\ pc' = At("thrown", "-")
                 /\ UNCHANGED result
    /\ UNCHANGED <<opts, rgb, pdfx, tac240, hist>>
    /\ UNCHANGED ltVars
    /\ UNCHANGED <<cmp, vis, tv, pl>>

----------------------------------------------------------------------------
(* processBatch: the stages *)

Push(r, tag, b) == [r EXCEPT !.errors = @ \cup {<<tag, b>>}]

\* Steps 1, 2 and the first half of 2.5: buildWith<Backend>
\* (success iff the tool exits 0 and the output file exists)
Build(b) ==
    /\ pc = At("build", b)
    /\ IF opts.skip[b]
       THEN /\ pc' = AfterStep(pc, opts)
            /\ UNCHANGED <<rgb, result, hist>>
       ELSE \E o \in {"ok", "fail", "throw"} :
              /\ hist' = SetStage(hist, "build", b, o)
              /\ CASE o = "ok" ->
                        /\ rgb' = [rgb EXCEPT ![b] = TRUE]
                        /\ result' = [result EXCEPT !.build[b] = TRUE]
                        /\ pc' = IF b = "weasyprint" /\ ~opts.skipConvert
                                 THEN At("pdfx", b) ELSE AfterStep(pc, opts)
                   [] o = "fail" ->
                        /\ result' = Push([result EXCEPT !.build[b] = FALSE], "build", b)
                        /\ pc' = AfterStep(pc, opts)
                        /\ UNCHANGED rgb
                   [] o = "throw" ->
                        /\ result' = Push(result, "build-exception", b)
                        /\ pc' = AfterException(pc, opts)
                        /\ UNCHANGED rgb
    /\ UNCHANGED <<opts, pdfx, tac240>>
    /\ UNCHANGED ltVars
    /\ UNCHANGED <<cmp, vis, tv, pl>>

\* Second half of step 2.5: WeasyPrint writes weasyprint-pdfx.pdf itself
BuildWeasyPrintPdfx ==
    /\ pc = At("pdfx", "weasyprint")
    /\ \E o \in {"ok", "fail", "throw"}, d \in DocSet :
          /\ hist' = SetStage(hist, "convert", "weasyprint", o)
          /\ CASE o = "ok" ->
                    /\ pdfx' = [pdfx EXCEPT !["weasyprint"] = d]
                    /\ result' = [result EXCEPT !.convert["weasyprint"] = TRUE]
                    /\ pc' = AfterStep(At("build", "weasyprint"), opts)
               [] o = "fail" ->
                    /\ result' = Push([result EXCEPT !.convert["weasyprint"] = FALSE],
                                      "pdfx", "weasyprint")
                    /\ pc' = AfterStep(At("build", "weasyprint"), opts)
                    /\ UNCHANGED pdfx
               [] o = "throw" ->
                    /\ result' = Push(result, "build-exception", "weasyprint")
                    /\ pc' = AfterException(At("build", "weasyprint"), opts)
                    /\ UNCHANGED pdfx
    /\ UNCHANGED <<opts, rgb, tac240>>
    /\ UNCHANGED ltVars
    /\ UNCHANGED <<cmp, vis, tv, pl>>

\* convertToPdfx (Ghostscript) on an existing <backend>-output.pdf
RunConvert(b) ==
    \E o \in {"ok", "fail", "throw"}, d \in DocSet :
       /\ hist' = SetStage(hist, "convert", b, o)
       /\ CASE o = "ok" ->
                 /\ pdfx' = [pdfx EXCEPT ![b] = d]
                 /\ result' = [result EXCEPT !.convert[b] = TRUE]
                 /\ pc' = AfterStep(pc, opts)
            [] o = "fail" ->
                 /\ result' = Push([result EXCEPT !.convert[b] = FALSE], "convert", b)
                 /\ pc' = AfterStep(pc, opts)
                 /\ UNCHANGED pdfx
            [] o = "throw" ->
                 /\ result' = Push(result, "convert-exception", b)
                 /\ pc' = AfterException(pc, opts)
                 /\ UNCHANGED pdfx

\* Step 3 for PagedJS and Vivliostyle
Convert(b) ==
    /\ b # "weasyprint"
    /\ pc = At("convert", b)
    /\ IF rgb[b]
       THEN RunConvert(b)
       ELSE /\ pc' = AfterStep(pc, opts)
            /\ UNCHANGED <<pdfx, result, hist>>
    /\ UNCHANGED <<opts, rgb, tac240>>
    /\ UNCHANGED ltVars
    /\ UNCHANGED <<cmp, vis, tv, pl>>

\* Step 3 for WeasyPrint: Ghostscript only when weasyprint-pdfx.pdf is not there
ConvertWeasyPrint ==
    /\ pc = At("convert", "weasyprint")
    /\ IF ~pdfx["weasyprint"].exists /\ rgb["weasyprint"]
       THEN RunConvert("weasyprint")
       ELSE /\ pc' = AfterStep(pc, opts)
            /\ UNCHANGED <<pdfx, result, hist>>
    /\ UNCHANGED <<opts, rgb, tac240>>
    /\ UNCHANGED ltVars
    /\ UNCHANGED <<cmp, vis, tv, pl>>

\* copyFileSync(tac240, pdfx) runs only under `if (tacLimitResult.success)`
PdfxAfterLimitUnchecked(l, old, out) == IF out.exists THEN out ELSE old

PdfxAfterLimit(l, old, out) == IF l.success THEN out ELSE old

\* Step 3.5 for PagedJS and Vivliostyle: limitTAC on every existing PDF/X
Limit(b) ==
    /\ b # "weasyprint"
    /\ pc = At("limit", b)
    /\ lt.pc = "idle"
    /\ IF pdfx[b].exists
       THEN /\ lt' = LimitTACCall(b, pdfx[b], BatchMaxTAC, TRUE, FALSE)
            /\ invocations' = invocations + 1
            /\ hist' = [hist EXCEPT !.lim[b] = [NoLim EXCEPT !.reached = TRUE, !.called = TRUE,
                                                           !.docBefore = pdfx[b]]]
            /\ UNCHANGED pc
       ELSE /\ pc' = AfterStep(pc, opts)
            /\ UNCHANGED <<lt, invocations, hist>>
    /\ UNCHANGED <<opts, rgb, pdfx, tac240, result, iccFiles, profileBuilds>>
    /\ UNCHANGED <<cmp, vis, tv, pl>>

\* Step 3.5 for WeasyPrint: validateTAC first, limitTAC only above 240
LimitWeasyPrint ==
    LET b == "weasyprint" IN
    /\ pc = At("limit", b)
    /\ lt.pc = "idle"
    /\ IF ~pdfx[b].exists
       THEN /\ pc' = AfterStep(pc, opts)
            /\ UNCHANGED <<lt, invocations, hist, tac240>>
       ELSE IF ValidateTACThrows(pdfx[b])
       THEN /\ pc' = AfterException(pc, opts)
            /\ hist' = [hist EXCEPT !.lim[b] = [NoLim EXCEPT !.reached = TRUE,
                                                           !.docBefore = pdfx[b]]]
            /\ UNCHANGED <<lt, invocations, tac240>>
       ELSE IF ValidateTAC(pdfx[b]).maxTAC <= BatchMaxTAC
       THEN /\ pc' = AfterStep(pc, opts)
            /\ tac240' = [tac240 EXCEPT ![b] = pdfx[b]]
            /\ hist' = [hist EXCEPT !.lim[b] = [NoLim EXCEPT !.reached = TRUE,
                                                           !.measured = TRUE,
                                                           !.docBefore = pdfx[b]]]
            /\ UNCHANGED <<lt, invocations>>
       ELSE /\ lt' = LimitTACCall(b, pdfx[b], BatchMaxTAC, TRUE, FALSE)
            /\ invocations' = invocations + 1
            /\ hist' = [hist EXCEPT !.lim[b] = [NoLim EXCEPT !.reached = TRUE, !.called = TRUE,
                                                           !.measured = TRUE,
                                                           !.docBefore = pdfx[b]]]
            /\ UNCHANGED <<pc, tac240>>
    /\ UNCHANGED <<opts, rgb, pdfx, result, iccFiles, profileBuilds>>
    /\ UNCHANGED <<cmp, vis, tv, pl>>

\* limitTAC has returned to processBatch
LimitReturn(b) ==
    /\ pc = At("limit", b)
    /\ lt.pc = "return"
    /\ lt.caller = b
    /\ LET out == IF lt.outWritten THEN lt.outDoc ELSE tac240[b]
       IN  /\ tac240' = [tac240 EXCEPT ![b] = out]
           /\ pdfx' = [pdfx EXCEPT ![b] = PdfxAfterLimit(lt, pdfx[b], out)]
    /\ hist' = [hist EXCEPT !.lim[b].returned = TRUE, !.lim[b].success = lt.success]
    /\ lt' = IdleLt
    /\ pc' = AfterStep(pc, opts)
    /\ UNCHANGED <<opts, rgb, result, iccFiles, profileBuilds, invocations>>
    /\ UNCHANGED <<cmp, vis, tv, pl>>

\* Step 3.6: validateTAC on every existing PDF/X
Validate(b) ==
    /\ pc = At("validate", b)
    /\ IF ~pdfx[b].exists
       THEN /\ pc' = AfterStep(pc, opts)
            /\ UNCHANGED <<result, hist>>
       ELSE IF ValidateTACThrows(pdfx[b])
       THEN /\ pc' = AfterException(pc, opts)
            /\ hist' = SetStage(hist, "validate", b, "throw")
            /\ UNCHANGED result
       ELSE LET tacResult == ValidateTAC(pdfx[b])
                r == [result EXCEPT !.tacValidation[b] = tacResult]
            IN  /\ result' = IF tacResult.pagesOverLimit # {} THEN Push(r, "tac", b) ELSE r
                /\ hist' = SetStage(hist, "validate", b, "ok")
                /\ pc' = AfterStep(pc, opts)
    /\ UNCHANGED <<opts, rgb, pdfx, tac240>>
    /\ UNCHANGED ltVars
    /\ UNCHANGED <<cmp, vis, tv, pl>>

\* runComparisonInDir calls validateTAC on every existing PDF/X, outside any try
ComparisonThrows == \E b \in Backends : pdfx[b].exists /\ ValidateTACThrows(pdfx[b])

\* "Determine overall success"
OverallSuccess(r, o) ==
    /\ r.errors = {}
    /\ \A b \in Backends : r.build[b] \/ o.skip[b]

\* Step 4 (runComparisonInDir, compliance flags, strict mode), then the overall
\* success and the return
Compare ==
    /\ pc = At("compare", "-")
    /\ pc' = At("done", "-")
    /\ IF opts.skipCompare
       THEN /\ result' = [result EXCEPT !.success = OverallSuccess(result, opts)]
            /\ UNCHANGED hist
       ELSE \E reportOk \in BOOLEAN, valid \in [Backends -> BOOLEAN] :
              IF ComparisonThrows \/ ~reportOk
              THEN /\ result' = [Push(result, "comparison", "-") EXCEPT !.success = FALSE]
                   /\ hist' = [hist EXCEPT !.compareThrew = TRUE]
              ELSE LET pj == pdfx["pagedjs"].exists /\ valid["pagedjs"]
                       vs == pdfx["vivliostyle"].exists /\ valid["vivliostyle"]
                       r  == [result EXCEPT !.compliant["pagedjs"] = pj,
                                            !.compliant["vivliostyle"] = vs]
                       e  == IF opts.strictCompliance /\ ~(pj \/ vs)
                             THEN Push(r, "strict", "-") ELSE r
                   IN  /\ result' = [e EXCEPT !.success = OverallSuccess(e, opts)]
                       /\ UNCHANGED hist
    /\ UNCHANGED <<opts, rgb, pdfx, tac240>>
    /\ UNCHANGED ltVars
    /\ UNCHANGED <<cmp, vis, tv, pl>>


Next ==
    \/ Start
    \/ \E b \in Backends : Build(b)
    \/ BuildWeasyPrintPdfx
    \/ \E b \in Backends : Convert(b)
    \/ ConvertWeasyPrint
    \/ \E b \in Backends : Limit(b)
    \/ LimitWeasyPrint
    \/ \E b \in Backends : LimitReturn(b)
    \/ \E b \in Backends : Validate(b)
    \/ Compare
    \/ LtStart
    \/ LtProfile
    \/ LtPage
    \/ LtMerge

Spec == Init /\ [][Next]_vars

----------------------------------------------------------------------------
(* limitTAC under a caller of its own: the limit-tac.ts command line, or any   *)
(* importer of the exported function calling it several times in one process  *)

\* the input documents: every page count up to MaxPages, every TAC level per page
LimitDocs == {MkDoc(t, TRUE) : t \in SeqsUpTo(TacLevels, MaxPages) \ {<<>>}}

NoOptions ==
    [skip |-> [b \in Backends |-> FALSE], skipConvert |-> FALSE,
     skipCompare |-> FALSE, strictCompliance |-> FALSE]

InitLimit ==
    /\ pc = At("cli", "-")
    /\ opts = NoOptions
    /\ InitCommon

\* main() of limit-tac.ts: limitTAC({input, output, maxTAC, dpi, verify, keepTemp})
CliInvoke ==
    /\ pc = At("cli", "-")
    /\ lt.pc = "idle"
    /\ invocations < MaxInvocations
    /\ \E input \in LimitDocs \cup {NoDoc}, ceiling \in Ceilings,
          verify \in BOOLEAN, keepTemp \in BOOLEAN :
          lt' = LimitTACCall("cli", input, ceiling, verify, keepTemp)
    /\ invocations' = invocations + 1
    /\ UNCHANGED <<pc, opts, rgb, pdfx, tac240, result, iccFiles, profileBuilds, hist>>
    /\ UNCHANGED <<cmp, vis, tv, pl>>

\* the result is printed and dropped
CliReturn ==
    /\ pc = At("cli", "-")
    /\ lt.pc = "return"
    /\ lt' = IdleLt
    /\ UNCHANGED <<pc, opts, rgb, pdfx, tac240, result, iccFiles, profileBuilds,
                   invocations, hist>>
    /\ UNCHANGED <<cmp, vis, tv, pl>>

NextLimit ==
    \/ CliInvoke
    \/ CliReturn
    \/ LtStart
    \/ LtProfile
    \/ LtPage
    \/ LtMerge

SpecLimit == InitLimit /\ [][NextLimit]_vars

----------------------------------------------------------------------------
(* processBatch with external tools that may never answer. WeasyPrint, the     *)
(* tools of limitTAC and those of the comparison are awaited with no timeout:  *)
(* a tool that does not exit leaves the await pending.                         *)

InitHang ==
    /\ pc = At("start", "-")
    /\ opts = NoOptions
    /\ InitCommon

ToolHangs ==
    /\ \/ /\ pc \in {At("build", "weasyprint"), At("pdfx", "weasyprint")}
          /\ pc' = At("hung", "weasyprint")
          /\ UNCHANGED lt
       \/ /\ lt.pc \in {"profile", "pages"}
          /\ lt' = [lt EXCEPT !.pc = "hung"]
          /\ UNCHANGED pc
       \/ /\ pc = At("compare", "-")
          /\ ~opts.skipCompare
          /\ pc' = At("hung", "-")
          /\ UNCHANGED lt
    /\ UNCHANGED <<opts, rgb, pdfx, tac240, result, iccFiles, profileBuilds,
                   invocations, hist>>
    /\ UNCHANGED <<cmp, vis, tv, pl>>

NextHang ==
    \/ Next
    \/ ToolHangs

\* the process runs as long as it has a statement to run
SpecHang == InitHang /\ [][NextHang]_vars /\ WF_vars(NextHang)

----------------------------------------------------------------------------
(* Step 4 of processBatch on its own: the PDF/X files found in the output      *)
(* directory are drawn from CmpFiles.                                          *)

CmpTacs == {100, 103, 200, 250}

CmpSizes == {93, 100, 200}

MkFile(cmyk, versionOk, inkOk, tac, size) ==
    [exists |-> TRUE, dimsOk |-> TRUE, cmyk |-> cmyk, fontsOk |-> TRUE,
     versionOk |-> versionOk, encrypted |-> FALSE, hasPages |-> TRUE,
     inkOk |-> inkOk, tac |-> tac, fileSize |-> size]

CmpFiles ==
    {MkFile(p[1], p[2], TRUE, t, z) :
        p \in {<<TRUE, TRUE>>, <<TRUE, FALSE>>, <<FALSE, TRUE>>},
        t \in CmpTacs, z \in CmpSizes}
    \cup {MkFile(TRUE, TRUE, FALSE, 250, 100), NoFile}

\* processBatch has reached step 4: a backend without PDF/X file failed earlier
InitCompare ==
    /\ pc = At("compare", "-")
    /\ opts \in {[NoOptions EXCEPT !.strictCompliance = s] : s \in BOOLEAN}
    /\ cmp \in {CmpOf(files) : files \in [Backends -> CmpFiles]}
    /\ rgb = [b \in Backends |-> cmp.files[b].exists]
    /\ pdfx = [b \in Backends |-> NoDoc]
    /\ tac240 = [b \in Backends |-> NoDoc]
    /\ result = [InitResult EXCEPT
                    !.build = [b \in Backends |-> cmp.files[b].exists],
                    !.convert = [b \in Backends |-> cmp.files[b].exists],
                    !.errors = {<<"build", b>> : b \in {x \in Backends : ~cmp.files[x].exists}}]
    /\ lt = IdleLt
    /\ iccFiles = {}
    /\ profileBuilds = [c \in Ceilings |-> 0]
    /\ invocations = 0
    /\ hist = InitHist
    /\ vis = IdleVis
    /\ tv = IdleTv
    /\ pl = IdlePl

\* validateTAC of a PDF/X file: checkInkCoverage throws when inkcov gives nothing
FileTACThrows(f) == f.exists /\ ~f.inkOk

\* runComparisonInDir; reportOk: Bun.write of comparison-report.md succeeds
RunComparison ==
    /\ pc = At("compare", "-")
    /\ ~opts.skipCompare
    /\ cmp.pc = "idle"
    /\ \E reportOk \in BOOLEAN :
       IF (\E b \in Backends : FileTACThrows(cmp.files[b])) \/ ~reportOk
       THEN cmp' = [cmp EXCEPT !.pc = "threw"]
       ELSE LET v == [b \in Backends |->
                        IF cmp.files[b].exists THEN ValidatePdf(cmp.files[b])
                        ELSE NoValidation]
            IN  cmp' = [cmp EXCEPT
                          !.pc = "returned",
                          !.validation = v,
                          !.tacDiff = TacRow([b \in Backends |-> v[b].maxTac]),
                          !.sizeDiff = SizeRow([b \in Backends |-> v[b].fileSize]),
                          !.summary = CalculateSummary(v)]
    /\ UNCHANGED <<pc, opts, rgb, pdfx, tac240, result, hist, vis, tv, pl>>
    /\ UNCHANGED ltVars

\* the rest of step 4 (compliance flags, strict mode, catch), the overall success
\* and the return
ComparisonReturn ==
    /\ pc = At("compare", "-")
    /\ cmp.pc \in {"returned", "threw"}
    /\ pc' = At("done", "-")
    /\ IF cmp.pc = "threw"
       THEN /\ result' = [Push(result, "comparison", "-") EXCEPT !.success = FALSE]
            /\ hist' = [hist EXCEPT !.compareThrew = TRUE]
       ELSE LET pj == cmp.summary.compliant["pagedjs"]
                vs == cmp.summary.compliant["vivliostyle"]
                r  == [result EXCEPT !.compliant["pagedjs"] = pj,
                                     !.compliant["vivliostyle"] = vs]
                e  == IF opts.strictCompliance /\ ~(pj \/ vs)
                      THEN Push(r, "strict", "-") ELSE r
            IN  /\ result' = [e EXCEPT !.success = OverallSuccess(e, opts)]
                /\ UNCHANGED hist
    /\ UNCHANGED <<opts, rgb, pdfx, tac240, cmp, vis, tv, pl>>
    /\ UNCHANGED ltVars

NextCompare ==
    \/ RunComparison
    \/ ComparisonReturn

SpecCompare == InitCompare /\ [][NextCompare]_vars

----------------------------------------------------------------------------
(* compareVisually on its own: two files with up to MaxVisualPages pages.      *)

DiffThreshold == 100

\* what ImageMagick prints for a pair of pages, around the threshold
DiffPixelCounts == {0, DiffThreshold, DiffThreshold + 1}

InitVisual ==
    /\ pc = At("visual", "-")
    /\ opts = NoOptions
    /\ rgb = [b \in Backends |-> FALSE]
    /\ pdfx = [b \in Backends |-> NoDoc]
    /\ tac240 = [b \in Backends |-> NoDoc]
    /\ result = InitResult
    /\ lt = IdleLt
    /\ iccFiles = {}
    /\ profileBuilds = [c \in Ceilings |-> 0]
    /\ invocations = 0
    /\ hist = InitHist
    /\ cmp = IdleCmp
    /\ tv = IdleTv
    /\ pl = IdlePl
    /\ vis \in {VisualCall(e1, e2, IF e1 THEN n1 ELSE 0, IF e2 THEN n2 ELSE 0) :
                  e1 \in BOOLEAN, e2 \in BOOLEAN,
                  n1 \in 1..MaxVisualPages, n2 \in 1..MaxVisualPages}

visualFrame == <<pc, opts, rgb, pdfx, tac240, result, hist, cmp, tv, pl>>

\* the existence check and the two pdftoppm runs
VisualStart ==
    /\ vis.pc = "start"
    /\ IF ~vis.exists1 \/ ~vis.exists2
       THEN vis' = [vis EXCEPT !.pc = "returned", !.isNull = TRUE]
       ELSE \E converted \in BOOLEAN :
              IF converted
              THEN vis' = [vis EXCEPT !.pc = "pages",
                                      !.pagesCompared = Min(vis.n1, vis.n2)]
              ELSE vis' = [vis EXCEPT !.pc = "returned", !.isNull = TRUE]
    /\ UNCHANGED visualFrame
    /\ UNCHANGED ltVars

\* one turn of the page loop: compare -metric AE, or the catch around it
VisualPage ==
    /\ vis.pc = "pages"
    /\ vis.page < vis.pagesCompared
    /\ \E threw \in BOOLEAN, diffPixels \in DiffPixelCounts :
          vis' = [vis EXCEPT
                    !.page = @ + 1,
                    !.differencesFound =
                        IF threw \/ diffPixels > DiffThreshold THEN @ + 1 ELSE @,
                    !.differenceImages =
                        IF ~threw /\ diffPixels > DiffThreshold
                        THEN @ \cup {vis.page + 1} ELSE @]
    /\ UNCHANGED visualFrame
    /\ UNCHANGED ltVars

\* the loop is over: { pagesCompared, differencesFound, differenceImages }
VisualReturn ==
    /\ vis.pc = "pages"
    /\ vis.page = vis.pagesCompared
    /\ vis' = [vis EXCEPT !.pc = "returned"]
    /\ UNCHANGED visualFrame
    /\ UNCHANGED ltVars

NextVisual ==
    \/ VisualStart
    \/ VisualPage
    \/ VisualReturn

SpecVisual == InitVisual /\ [][NextVisual]_vars

----------------------------------------------------------------------------
(* The validate-tac command line: validateTAC on one file, then the exit code. *)

\* channel percentages of a page, with sums below, at and above both limits
InkPages ==
    {<<0, 0, 0, 0>>, <<40, 40, 40, 30>>, <<50, 50, 50, 50>>, <<50, 50, 50, 51>>,
     <<60, 60, 60, 60>>, <<60, 60, 60, 61>>, <<100, 100, 100, 100>>}

InitTac ==
    /\ pc = At("validate-tac", "-")
    /\ opts = NoOptions
    /\ rgb = [b \in Backends |-> FALSE]
    /\ pdfx = [b \in Backends |-> NoDoc]
    /\ tac240 = [b \in Backends |-> NoDoc]
    /\ result = InitResult
    /\ lt = IdleLt
    /\ iccFiles = {}
    /\ profileBuilds = [c \in Ceilings |-> 0]
    /\ invocations = 0
    /\ hist = InitHist
    /\ cmp = IdleCmp
    /\ vis = IdleVis
    /\ pl = IdlePl
    /\ tv \in {TacCall(cmyk, readable) :
                 cmyk \in SeqsUpTo(InkPages, MaxPages) \ {<<>>}, readable \in BOOLEAN}
              \cup {[TacCall(<<>>, FALSE) EXCEPT !.doc = NoDoc]}

tacFrame == <<pc, opts, rgb, pdfx, tac240, result, hist, cmp, vis, pl>>

\* const result = await validateTAC(pdfPath), inside the try
TacValidate ==
    /\ tv.pc = "start"
    /\ IF ValidateTACThrows(tv.doc)
       THEN tv' = [tv EXCEPT !.pc = "threw"]
       ELSE tv' = [tv EXCEPT !.pc = "validated", !.result = ValidateTAC(tv.doc)]
    /\ UNCHANGED tacFrame
    /\ UNCHANGED ltVars

\* process.exit(result.passed ? 0 : 1), and process.exit(1) in the catch
TacExit ==
    /\ tv.pc \in {"validated", "threw"}
    /\ tv' = [tv EXCEPT !.pc = "exited",
                        !.exitCode = IF tv.pc = "validated" /\ tv.result.passed
                                     THEN 0 ELSE 1]
    /\ UNCHANGED tacFrame
    /\ UNCHANGED ltVars

NextTac ==
    \/ TacValidate
    \/ TacExit

SpecTac == InitTac /\ [][NextTac]_vars

----------------------------------------------------------------------------
(* runPipeline of run-all.ts: one processBatch per discovered project.         *)

\* how a processBatch call ends: success, success = false, or an exception
BatchOutcomes == {"ok", "failed", "throws"}

InitPipeline ==
    /\ pc = At("pipeline", "-")
    /\ opts = NoOptions
    /\ rgb = [b \in Backends |-> FALSE]
    /\ pdfx = [b \in Backends |-> NoDoc]
    /\ tac240 = [b \in Backends |-> NoDoc]
    /\ result = InitResult
    /\ lt = IdleLt
    /\ iccFiles = {}
    /\ profileBuilds = [c \in Ceilings |-> 0]
    /\ invocations = 0
    /\ hist = InitHist
    /\ cmp = IdleCmp
    /\ vis = IdleVis
    /\ tv = IdleTv
    /\ pl \in {PipelineCall(n) : n \in 1..MaxProjects}

pipelineFrame == <<pc, opts, rgb, pdfx, tac240, result, hist, cmp, vis, tv>>

\* one turn of "for (const project of projectsToProcess)": await processBatch,
\* then projects.push; the await is not inside a try
PipelineProject ==
    /\ pl.pc = "loop"
    /\ Len(pl.projects) < pl.n
    /\ \E outcome \in BatchOutcomes :
          IF outcome = "throws"
          THEN pl' = [pl EXCEPT !.pc = "threw"]
          ELSE pl' = [pl EXCEPT !.projects =
                         Append(@, [name |-> Len(pl.projects) + 1,
                                    success |-> outcome = "ok"])]
    /\ UNCHANGED pipelineFrame
    /\ UNCHANGED ltVars

\* after the loop: batch-summary.md (failure ignored), overallSuccess, return
PipelineReturn ==
    /\ pl.pc = "loop"
    /\ Len(pl.projects) = pl.n
    /\ pl' = [pl EXCEPT !.pc = "returned",
                        !.success = \A k \in 1..Len(pl.projects) : pl.projects[k].success]
    /\ UNCHANGED pipelineFrame
    /\ UNCHANGED ltVars

NextPipeline ==
    \/ PipelineProject
    \/ PipelineReturn

SpecPipeline == InitPipeline /\ [][NextPipeline]_vars

----------------------------------------------------------------------------
(* Properties *)

Done == pc = At("done", "-")

\* validateTAC reads the document and finds its maximum above the fail threshold
MeasuredOver(doc) == ~ValidateTACThrows(doc) /\ ValidateTAC(doc).maxTAC > TacFail

RemediationFailed(b) == hist.lim[b].returned /\ ~hist.lim[b].success

\* C1: for every backend whose PDF/X document exists, limitTAC is invoked if and
\* only if the document's measured maxTAC is strictly above 240.
C1_RemediationIffOverLimit ==
    \A b \in Backends :
       hist.lim[b].reached =>
          (hist.lim[b].called <=> MeasuredOver(hist.lim[b].docBefore))

\* some stage of another backend than b failed or threw
SiblingFailed(b) ==
    \/ \E k \in hist.failed : k[2] # b
    \/ \E c \in Backends \ {b} : RemediationFailed(c)

OwnStagesAttempted(b) ==
    /\ hist.stage[<<"build", b>>] # "none"
    /\ (~opts.skipConvert /\ rgb[b]) => hist.stage[<<"convert", b>>] # "none"
    /\ (~opts.skipConvert /\ pdfx[b].exists) =>
          /\ hist.lim[b].reached
          /\ hist.lim[b].called => hist.lim[b].returned
          /\ hist.stage[<<"validate", b>>] # "none"

OwnResults(b) ==
    /\ result.build[b] = (hist.stage[<<"build", b>>] = "ok")
    /\ result.convert[b] = (hist.stage[<<"convert", b>>] = "ok")
    /\ result.tacValidation[b] =
          IF pdfx[b].exists /\ ~ValidateTACThrows(pdfx[b])
          THEN ValidateTAC(pdfx[b]) ELSE NoTAC

\* C2: when a stage of one backend fails or throws, every other non-skipped
\* backend still has each of its own stages attempted, and the build, convert
\* and TAC results recorded for it depend on its own stages only.
C2_SiblingsUnaffected ==
    Done =>
       \A b \in Backends :
          (~opts.skip[b] /\ SiblingFailed(b)) => (OwnStagesAttempted(b) /\ OwnResults(b))

C2_Witness ==
    /\ Done
    /\ hist.stage[<<"build", "pagedjs">>] = "throw"
    /\ hist.stage[<<"convert", "vivliostyle">>] = "fail"
    /\ ~opts.skip["weasyprint"]
    /\ result.build["weasyprint"]
    /\ result.convert["weasyprint"]
    /\ hist.lim["weasyprint"].called
    /\ hist.lim["weasyprint"].success
    /\ result.tacValidation["weasyprint"].present

\* C3: once a backend's build fails, no conversion, remediation or TAC
\* measurement runs for it; once its conversion fails, no remediation or TAC
\* measurement runs for it.
C3_FailureIsTerminal ==
    \A b \in Backends :
       /\ hist.stage[<<"build", b>>] \in {"fail", "throw"} =>
             /\ hist.stage[<<"convert", b>>] = "none"
             /\ ~hist.lim[b].reached
             /\ hist.stage[<<"validate", b>>] = "none"
       /\ <<"convert", b>> \in hist.failed =>
             /\ ~hist.lim[b].reached
             /\ hist.stage[<<"validate", b>>] = "none"

\* backend b was skipped, or its build and its conversion went through, so that
\* it ended with a document that is within the limit or not
ReachedTerminalState(b) ==
    \/ opts.skip[b]
    \/ /\ hist.stage[<<"build", b>>] = "ok"
       /\ <<"build", b>> \notin hist.failed
       /\ <<"convert", b>> \notin hist.failed

\* the HTML file was found, every non-skipped backend reached a terminal state,
\* the comparison raised nothing and strict mode did not object
NoStageFailed ==
    /\ <<"no-html", "-">> \notin result.errors
    /\ \A b \in Backends : ReachedTerminalState(b)
    /\ ~hist.compareThrew
    /\ <<"strict", "-">> \notin result.errors

\* C4: processBatch reports success exactly when no stage of a non-skipped
\* backend failed and no exception escaped; pages above the 240% limit do not
\* make the run unsuccessful.
C4_SuccessIffNoStageFailed ==
    Done => (result.success <=> NoStageFailed)

\* C5: when remediation fails for a backend, its PDF/X document stays what it
\* was before the attempt, and the TAC validation that follows still reports
\* it over the limit if it was over the limit before.
C5_FailedRemediationLeavesDocument ==
    \A b \in Backends :
       RemediationFailed(b) =>
          /\ pdfx[b] = hist.lim[b].docBefore
          /\ (Done /\ MeasuredOver(hist.lim[b].docBefore)) =>
                /\ result.tacValidation[b].present
                /\ ~result.tacValidation[b].passed
                /\ <<"tac", b>> \in result.errors

C5_Witness ==
    /\ Done
    /\ RemediationFailed("pagedjs")
    /\ tac240["pagedjs"].exists
    /\ MeasuredOver(hist.lim["pagedjs"].docBefore)
    /\ ~result.tacValidation["pagedjs"].passed

\* C6: limitTAC is never called on a document whose TAC was not measured
\* beforehand or could not be measured.
C6_NeverRemediateBlind ==
    \A b \in Backends :
       hist.lim[b].called =>
          (hist.lim[b].measured /\ ~ValidateTACThrows(hist.lim[b].docBefore))

AtReturn == lt.pc = "return"

\* every page was processed, the remap failed for page k and only there, and
\* neither the merge nor the cleanup failed
OnlyRemapFailedAt(k) ==
    /\ AtReturn
    /\ Len(lt.outcomes) = Len(lt.input.pages)
    /\ lt.outcomes[k] = "remapFail"
    /\ \A i \in 1..Len(lt.outcomes) : i # k => lt.outcomes[i] = "ok"
    /\ lt.error.kind \notin {"merge", "cleanup"}

\* C7: when the remap fails for exactly one page k of an N-page document and
\* every other step succeeds, limitTAC succeeds, the output has N pages, page k
\* is the unmodified raster and every other page is remapped.
C7_RemapFallbackKeepsPage ==
    \A k \in 1..Len(lt.input.pages) :
       OnlyRemapFailedAt(k) =>
          /\ lt.success
          /\ Len(lt.outDoc.pages) = Len(lt.input.pages)
          /\ lt.outDoc.pages[k] =
                [src |-> k, tac |-> lt.input.pages[k].tac, kind |-> "raster"]
          /\ \A i \in 1..Len(lt.input.pages) :
                i # k => lt.outDoc.pages[i] =
                            [src |-> i, tac |-> Remap(lt.input.pages[i].tac, lt.ceiling),
                             kind |-> "remapped"]

C7_Witness ==
    /\ Len(lt.input.pages) = MaxPages
    /\ OnlyRemapFailedAt(1)
    /\ lt.input.pages[1].tac > lt.ceiling
    /\ lt.input.pages[MaxPages].tac > lt.ceiling
    /\ lt.success

\* C8: page i of the output limitTAC writes originates from page i of the
\* input, whichever per-page steps failed.
C8_OutputKeepsSourceOrder ==
    (AtReturn /\ lt.outWritten) =>
       \A i \in 1..Len(lt.outDoc.pages) : lt.outDoc.pages[i].src = i

FailsBeforeAnyWork ==
    /\ ~lt.success
    /\ lt.outcomes = <<>>
    /\ lt.tempDir = -1
    /\ ~lt.builtProfile
    /\ ~lt.outWritten

\* C9 as stated: when tools are missing, limitTAC fails before rasterizing a
\* page, building a profile or writing output, and its error names every
\* missing tool.
C9_MissingToolsAllNamed ==
    (AtReturn /\ lt.envMissing # {}) =>
       /\ FailsBeforeAnyWork
       /\ lt.error.kind = "missing-deps"
       /\ lt.error.missing = lt.envMissing

\* C9 amended: the same for an input file that exists; for an input file that
\* does not exist limitTAC fails as early, with the input-not-found error, which
\* names no tool.
C9_MissingToolsAllNamedForExistingInput ==
    (AtReturn /\ lt.envMissing # {}) =>
       /\ FailsBeforeAnyWork
       /\ IF lt.input.exists
          THEN lt.error.kind = "missing-deps" /\ lt.error.missing = lt.envMissing
          ELSE lt.error.kind = "input-not-found" /\ lt.error.missing = {}

C9_Witness ==
    /\ AtReturn
    /\ lt.input.exists
    /\ Cardinality(lt.envMissing) >= 2
    /\ lt.error.kind = "missing-deps"
    /\ lt.error.missing = lt.envMissing

\* C10: within one process the device-link profile of a ceiling is built at
\* most once, whatever the number of limitTAC calls using that ceiling.
C10_ProfileBuiltAtMostOnce ==
    \A c \in Ceilings : profileBuilds[c] <= 1

\* the object processBatch returns for backend b
BackendResult(r, b) ==
    [build |-> r.build[b], convert |-> r.convert[b], compliant |-> r.compliant[b],
     tacValidation |-> r.tacValidation[b]]

\* limitTAC ran to success on b's document, which was replaced by the rasterized one
RemediationApplied(b) == hist.lim[b].returned /\ hist.lim[b].success

\* C11: when remediation was executed on a backend's document, the result
\* returned for that backend carries fontPreservation = FALSE.
C11_FontPreservationSurfaced ==
    Done =>
       \A b \in Backends :
          RemediationApplied(b) =>
             /\ "fontPreservation" \in DOMAIN BackendResult(result, b)
             /\ BackendResult(result, b).fontPreservation = FALSE


\* the PDF/X file of backend b has a page over the 240% limit
FinalOverLimit(b) == cmp.files[b].exists /\ cmp.files[b].tac > DtrpgMaxTAC

\* C12: a backend whose final print-intent document has a page with TAC > 240
\* is reported compliant neither by the comparison summary nor by the batch
\* result.
C12_OverLimitNeverCompliant ==
    \A b \in Backends :
       FinalOverLimit(b) => ~cmp.summary.compliant[b] /\ ~result.compliant[b]


\* C13: processBatch never throws; whatever fails, it returns a result.
C13_ProcessBatchNeverThrows == pc # At("thrown", "-")


\* TAC measurement fails for the PDF/X file of some backend
MeasurementFails == \E b \in Backends : FileTACThrows(cmp.files[b])

\* C14: when TAC measurement fails for one backend's print-intent document
\* during the comparison, the report is still produced and no pipeline error
\* is recorded for it.
C14_MeasurementFailureTolerated ==
    (pc = At("done", "-") /\ MeasurementFails) =>
       /\ cmp.pc = "returned"
       /\ <<"comparison", "-">> \notin result.errors


\* runComparisonInDir has returned its report
Compared == cmp.pc = "returned"

Present(b) == cmp.files[b].exists

\* the verdict of a feature row that names b
Better(b) == b \o "-better"

\* b is one of the backends with the highest score
AmongTopScores(b) == \A o \in Backends : cmp.summary.score[o] <= cmp.summary.score[b]

\* C15: a backend without print-intent artifact is named better in no feature
\* row, is not the winner and is not one of the tied backends.
C15_AbsentBackendExcluded ==
    Compared =>
       \A b \in Backends :
          ~Present(b) =>
             /\ cmp.tacDiff # Better(b)
             /\ cmp.sizeDiff # Better(b)
             /\ cmp.summary.winner # b
             /\ ~(cmp.summary.winner = "tie" /\ AmongTopScores(b))


\* C16: when exactly one backend produced a final artifact the comparison
\* declares neither a winner nor a tie.
C16_NoRankingForSingleBackend ==
    (Compared /\ Cardinality({b \in Backends : Present(b)}) = 1) =>
       cmp.summary.winner \notin Backends \cup {"tie"}


PresentCount == Cardinality({b \in Backends : Present(b)})

TopScorers == {b \in Backends : AmongTopScores(b)}

\* C17: with two or more backends present, a backend is the winner only if its
\* score is strictly greater than every other score, and two or more backends
\* sharing the highest score give "tie".
C17_WinnerStrictlyGreatestElseTie ==
    (Compared /\ PresentCount >= 2) =>
       /\ \A b \in Backends :
             cmp.summary.winner = b =>
                \A o \in Backends \ {b} : cmp.summary.score[o] < cmp.summary.score[b]
       /\ Cardinality(TopScorers) >= 2 => cmp.summary.winner = "tie"

\* three backends compared, two share the highest score, the third is below
C17_Witness ==
    /\ Compared
    /\ PresentCount = 3
    /\ Cardinality(TopScorers) = 2
    /\ cmp.summary.winner = "tie"


\* twice min(10, 5 if valid, plus 0.5 per passed check), for the validation of b
ExactScoreHalves(b) ==
    LET v == cmp.validation[b]
    IN  Min(2 * ScoreCap,
            (IF v.valid THEN 2 * ValidPoints ELSE 0) + Cardinality(v.passed))

\* C18: the score of each backend is exactly min(10, 5 if valid else 0, plus
\* 0.5 per passed check), so two equally valid backends with different numbers
\* of passed checks below the cap get different scores.
C18_ScoreIsExact ==
    Compared =>
       /\ \A b \in Backends :
             Present(b) => 2 * cmp.summary.score[b] = ExactScoreHalves(b)
       /\ \A a, b \in Backends :
             (/\ Present(a) /\ Present(b)
              /\ cmp.validation[a].valid = cmp.validation[b].valid
              /\ ExactScoreHalves(a) # ExactScoreHalves(b))
             => cmp.summary.score[a] # cmp.summary.score[b]


AllPresent == \A b \in Backends : Present(b)

Verdicts == {"same"} \cup {Better(b) : b \in Backends}

\* the highest page TAC validatePdf found for b
TacOf(b) == cmp.validation[b].maxTac

TacsWithinTolerance ==
    \A a, b \in Backends : Abs(TacOf(a) - TacOf(b)) <= TacTolerance

\* C19: in the max-TAC row the verdict is "same" when the maxTAC values are
\* within 5 points of each other, otherwise the backend with the strictly
\* lowest maxTAC is named better; there is no other verdict.
C19_TacRowSameOrLowest ==
    (Compared /\ AllPresent) =>
       /\ cmp.tacDiff \in Verdicts
       /\ TacsWithinTolerance => cmp.tacDiff = "same"
       /\ \A b \in Backends :
             (~TacsWithinTolerance /\ \A o \in Backends \ {b} : TacOf(b) < TacOf(o))
             => cmp.tacDiff = Better(b)


SizeOf(b) == cmp.validation[b].fileSize

\* the sizes of a and b differ by no more than 5% of the larger
SizesWithinFivePct(a, b) ==
    100 * Abs(SizeOf(a) - SizeOf(b)) <= 5 * Max({SizeOf(a), SizeOf(b)})

AllSizesWithinFivePct == \A a, b \in Backends : SizesWithinFivePct(a, b)

\* C20: in the file-size row the verdict is "same" exactly when the sizes
\* differ by no more than 5%, otherwise the backend with the strictly smaller
\* file is named better.
C20_SizeRowFivePercent ==
    (Compared /\ AllPresent) =>
       /\ (cmp.sizeDiff = "same") <=> AllSizesWithinFivePct
       /\ \A b \in Backends :
             (~AllSizesWithinFivePct /\ \A o \in Backends \ {b} : SizeOf(b) < SizeOf(o))
             => cmp.sizeDiff = Better(b)


\* compareVisually returned a comparison of the two outputs
VisualCompared == vis.pc = "returned" /\ ~vis.isNull

\* C21: every page index present in only one of the two outputs counts as
\* "differs": the number of differing pages is at least the difference of the
\* page counts.
C21_ExtraPagesCountAsDiffering ==
    VisualCompared => vis.differencesFound >= Abs(vis.n1 - vis.n2)


\* validateTAC returned a result for the file
TacValidated == tv.pc \in {"validated", "exited"} /\ tv.result.present

\* the TAC of page i of the validated file, from its channels
ChannelSum(i) == InkTac(tv.cmyk[i])

StatusOf(i) == tv.result.perPage[i].status

Severity(status) == CASE status = "pass" -> 0 [] status = "warn" -> 1 [] status = "fail" -> 2

\* C22: the status of every page is a function of its TAC, the sum of the four
\* channel percentages: pass iff TAC <= 200, warn iff 200 < TAC <= 240, fail
\* iff TAC > 240; the status never moves toward pass as TAC grows.
C22_StatusIsStepFunctionOfTac ==
    TacValidated =>
       /\ Len(tv.result.perPage) = Len(tv.cmyk)
       /\ \A i \in 1..Len(tv.cmyk) :
             /\ tv.result.perPage[i].tac = ChannelSum(i)
             /\ StatusOf(i) = "pass" <=> ChannelSum(i) <= 200
             /\ StatusOf(i) = "warn" <=> (200 < ChannelSum(i) /\ ChannelSum(i) <= 240)
             /\ StatusOf(i) = "fail" <=> ChannelSum(i) > 240
       /\ \A i, j \in 1..Len(tv.cmyk) :
             ChannelSum(i) <= ChannelSum(j) => Severity(StatusOf(i)) <= Severity(StatusOf(j))

\* a validated file with one page at exactly 200 and one at exactly 240
C22_Witness ==
    /\ TacValidated
    /\ \E i, j \in 1..Len(tv.cmyk) :
          /\ ChannelSum(i) = 200 /\ StatusOf(i) = "pass"
          /\ ChannelSum(j) = 240 /\ StatusOf(j) = "warn"

\* the pages validateTAC gave the status fail
FailPages == {i \in 1..Len(tv.result.perPage) : StatusOf(i) = "fail"}

PipelineOver == pl.pc \in {"returned", "threw"}

\* C24: runPipeline processes every discovered project exactly once, in order,
\* whatever the outcome of earlier projects, records each result and reports
\* success iff every project succeeded.
C24_EveryProjectProcessed ==
    PipelineOver =>
       /\ pl.pc = "returned"
       /\ Len(pl.projects) = pl.n
       /\ \A k \in 1..Len(pl.projects) : pl.projects[k].name = k
       /\ pl.success <=> \A k \in 1..Len(pl.projects) : pl.projects[k].success


\* C25: whenever limitTAC returns success, the output has as many pages as the
\* input, whichever per-page steps failed; a failed page is carried over, never
\* dropped.
C25_SuccessKeepsPageCount ==
    (AtReturn /\ lt.success) => Len(lt.outDoc.pages) = Len(lt.input.pages)


\* some stage of backend b has been run
StageStarted(b) ==
    \/ \E st \in {"build", "convert", "validate"} : hist.stage[<<st, b>>] # "none"
    \/ hist.lim[b].reached

\* processBatch is about to run a stage of backend b
StageDue(b) ==
    /\ pc.b = b
    /\ pc.stage \in {"build", "pdfx", "convert", "limit", "validate"}
    /\ ~opts.skip[b]

\* C26: backends are processed one at a time: the build, convert and measure
\* chain of one backend is complete before any stage of the next backend
\* starts, so no stage of a backend is due once a later backend has started.
C26_BackendChainsNotInterleaved ==
    \A b1, b2 \in Backends :
       (StageDue(b1) /\ Index(BackendOrder, b1) < Index(BackendOrder, b2))
       => ~StageStarted(b2)


\* C27: after a stage failed for a backend, that stage is not attempted again
\* for that backend, with the same or with another tool: its recorded outcome
\* stays what it was.
C27_FailedStageNotRetried ==
    [][\A k \in DOMAIN hist.stage :
          hist.stage[k] \in {"fail", "throw"} => hist'.stage[k] = hist.stage[k]]_vars


\* C28: every external tool invocation is bounded by a timeout, so processBatch
\* eventually returns (or throws) even if a tool never responds.
C28_ProcessBatchEventuallyReturns == <>(pc.stage \in {"done", "thrown"})


\* limitTAC merged the pages and re-measured the output above ceiling + 1
ExceedsTolerance ==
    /\ AtReturn
    /\ lt.outWritten
    /\ lt.verify
    /\ MeasureTAC(lt.outDoc) > lt.ceiling + 1

ComparedAndDone == Done /\ Compared

\* C30: in strict mode with the comparison enabled, the run fails for
\* non-compliance exactly when no backend's print-intent output is compliant
\* (WeasyPrint counting like the others), and the compliant flag of every
\* backend in the batch result equals its verdict in the comparison summary.
C30_StrictCountsEveryBackend ==
    ComparedAndDone =>
       /\ opts.strictCompliance =>
             (<<"strict", "-">> \in result.errors
                <=> \A b \in Backends : ~cmp.summary.compliant[b])
       /\ \A b \in Backends : result.compliant[b] = cmp.summary.compliant[b]

====
